---- MODULE Spec2Model ----
(***************************************************************************)
(* Model of the emotional-fingerprint core of emotional_fingerprint.py:    *)
(* clamp, normalize_range, bucket_3 and compute_fingerprint.               *)
(*                                                                         *)
(* Numbers.  A Python number is modelled as an exact rational <<n, d>>     *)
(* in lowest terms with d > 0; the code's float literals are the           *)
(* rationals they denote (0.45 is 45/100).  None is <<0, 0>>.  The model   *)
(* therefore speaks of the real-number arithmetic of the code; the IEEE    *)
(* double evaluation agrees with it at the comparisons the complexity      *)
(* dimension decides on (0.25 + 0.15 is the double 0.4, 0.65 + 0.15 + 0.1  *)
(* is the double 0.9).                                                     *)
(***************************************************************************)
EXTENDS Integers, Sequences, FiniteSets, TLC

VARIABLES tracks, pc, cur, frame, results, util

vars == <<tracks, pc, cur, frame, results, util>>

(***************************************************************************)
(* Bounds of the model.                                                    *)
(***************************************************************************)
NWorkers == 2
NTracks == 2
MaxNum == 3
MaxDen == 2

(***************************************************************************)
(* Exact rational arithmetic.                                              *)
(***************************************************************************)
Abs(n) == IF n < 0 THEN -n ELSE n

RECURSIVE GCD(_, _)
GCD(a, b) == IF b = 0 THEN a ELSE GCD(b, a % b)

Rat(n, d) ==
    LET g == GCD(Abs(n), Abs(d))
        s == IF d < 0 THEN -1 ELSE 1
    IN  <<(s * n) \div g, (s * d) \div g>>

Zero == Rat(0, 1)
One == Rat(1, 1)
None == <<0, 0>>

IsNumber(v) == v[2] > 0

RAdd(a, b) == Rat(a[1] * b[2] + b[1] * a[2], a[2] * b[2])
RSub(a, b) == Rat(a[1] * b[2] - b[1] * a[2], a[2] * b[2])
RMul(a, b) == Rat(a[1] * b[1], a[2] * b[2])
RDiv(a, b) == Rat(a[1] * b[2], a[2] * b[1])
RLess(a, b) == a[1] * b[2] < b[1] * a[2]
RLeq(a, b) == a[1] * b[2] <= b[1] * a[2]

\* Python's min(a, b) and max(a, b): the first argument unless the second
\* is strictly smaller (greater).
PyMin(a, b) == IF RLess(b, a) THEN b ELSE a
PyMax(a, b) == IF RLess(a, b) THEN b ELSE a

\* float(v) of a number keeps its value; int(v) truncates toward zero.
PyFloat(v) == v
PyInt(v) == IF v[1] >= 0 THEN v[1] \div v[2] ELSE -((-v[1]) \div v[2])

(***************************************************************************)
(* clamp, normalize_range, bucket_3.                                       *)
(***************************************************************************)
ClampNoUpper(x, low, high) == PyMax(low, x)

ClampSwapped(x, low, high) == PyMin(low, PyMax(x, high))

Clamp(x, low, high) == PyMax(low, PyMin(x, high))

\* clamp(x) with the default bounds low = 0.0, high = 1.0.
Clamp01(x) == Clamp(x, Zero, One)

NormalizeRangeNoClamp(x, low, high) ==
    IF high = low THEN Zero ELSE RDiv(RSub(x, low), RSub(high, low))

NormalizeRange(x, low, high) ==
    IF high = low THEN Zero ELSE Clamp01(RDiv(RSub(x, low), RSub(high, low)))

Bucket3Inclusive(x, labels, t1, t2) ==
    IF RLeq(x, t1) THEN labels[1]
    ELSE IF RLeq(x, t2) THEN labels[2]
    ELSE labels[3]

Bucket3(x, labels, t1, t2) ==
    IF RLess(x, t1) THEN labels[1]
    ELSE IF RLess(x, t2) THEN labels[2]
    ELSE labels[3]

\* The default thresholds of bucket_3.
T1Default == Rat(33, 100)
T2Default == Rat(66, 100)

(***************************************************************************)
(* compute_fingerprint: the inputs.                                        *)
(***************************************************************************)
Fields ==
    {"tempo", "danceability", "energy", "valence", "loudness",
     "time_signature", "key", "mode", "acousticness", "instrumentalness"}

\* audio_features.get(k, default)
DictGet(d, k, default) == IF k \in DOMAIN d THEN d[k] ELSE default

\* The dictionary after the reads of the keys: get leaves it as it was.
AfterPop(d, keys) == [k \in DOMAIN d \ keys |-> d[k]]

AfterGet(d, keys) == d

\* float(None) and int(None) raise TypeError.
Raises(d) == \E k \in DOMAIN d \cap Fields : ~IsNumber(d[k])

ReadInputsLoudnessZero(d) ==
    [tempo            |-> PyFloat(DictGet(d, "tempo", Rat(0, 1))),
     dance            |-> PyFloat(DictGet(d, "danceability", Rat(0, 1))),
     energy           |-> PyFloat(DictGet(d, "energy", Rat(0, 1))),
     valence          |-> PyFloat(DictGet(d, "valence", Rat(0, 1))),
     loudness         |-> PyFloat(DictGet(d, "loudness", Rat(0, 1))),
     time_signature   |-> PyInt(DictGet(d, "time_signature", Rat(4, 1))),
     key              |-> PyInt(DictGet(d, "key", Rat(0, 1))),
     mode             |-> PyInt(DictGet(d, "mode", Rat(1, 1))),
     acousticness     |-> PyFloat(DictGet(d, "acousticness", Rat(0, 1))),
     instrumentalness |-> PyFloat(DictGet(d, "instrumentalness", Rat(0, 1)))]

\* The locals after the ten reads.
ReadInputs(d) ==
    [tempo            |-> PyFloat(DictGet(d, "tempo", Rat(0, 1))),
     dance            |-> PyFloat(DictGet(d, "danceability", Rat(0, 1))),
     energy           |-> PyFloat(DictGet(d, "energy", Rat(0, 1))),
     valence          |-> PyFloat(DictGet(d, "valence", Rat(0, 1))),
     loudness         |-> PyFloat(DictGet(d, "loudness", Rat(-60, 1))),
     time_signature   |-> PyInt(DictGet(d, "time_signature", Rat(4, 1))),
     key              |-> PyInt(DictGet(d, "key", Rat(0, 1))),
     mode             |-> PyInt(DictGet(d, "mode", Rat(1, 1))),
     acousticness     |-> PyFloat(DictGet(d, "acousticness", Rat(0, 1))),
     instrumentalness |-> PyFloat(DictGet(d, "instrumentalness", Rat(0, 1)))]

(***************************************************************************)
(* compute_fingerprint: normalizations, scores, labels.                    *)
(***************************************************************************)
Normalizations(f) ==
    f @@ [tempo_n    |-> NormalizeRange(f.tempo, Rat(50, 1), Rat(200, 1)),
          loudness_n |-> NormalizeRange(f.loudness, Rat(-30, 1), Rat(0, 1))]

EnergyRawShifted(energy, tempo_n, dance) ==
    RAdd(RAdd(RMul(Rat(50, 100), energy), RMul(Rat(30, 100), tempo_n)),
         RMul(Rat(20, 100), dance))

EnergyRaw(energy, tempo_n, dance) ==
    RAdd(RAdd(RMul(Rat(45, 100), energy), RMul(Rat(35, 100), tempo_n)),
         RMul(Rat(20, 100), dance))

ValenceRaw(valence, tempo_n) ==
    RAdd(RMul(Rat(85, 100), valence), RMul(Rat(15, 100), tempo_n))

IntensityRawNoLoudness(energy, loudness_n, tempo_n) ==
    RAdd(RMul(Rat(45, 100), energy), RMul(Rat(20, 100), tempo_n))

IntensityRaw(energy, loudness_n, tempo_n) ==
    RAdd(RAdd(RMul(Rat(45, 100), energy), RMul(Rat(35, 100), loudness_n)),
         RMul(Rat(20, 100), tempo_n))

ComplexityRawInverted(time_signature, mode, key) ==
    LET c0 == Rat(0, 1)
        c1 == RAdd(c0, IF time_signature \notin {3, 4}
                       THEN Rat(25, 100) ELSE Rat(65, 100))
        c2 == IF mode = 0 THEN RAdd(c1, Rat(15, 100)) ELSE c1
        c3 == IF key = -1 THEN RAdd(c2, Rat(1, 10)) ELSE c2
    IN  c3

ComplexityRawKeyZero(time_signature, mode, key) ==
    LET c0 == Rat(0, 1)
        c1 == RAdd(c0, IF time_signature \in {3, 4}
                       THEN Rat(25, 100) ELSE Rat(65, 100))
        c2 == IF mode = 0 THEN RAdd(c1, Rat(15, 100)) ELSE c1
        c3 == IF key = 0 THEN RAdd(c2, Rat(1, 10)) ELSE c2
    IN  c3

ComplexityRaw(time_signature, mode, key) ==
    LET c0 == Rat(0, 1)
        c1 == RAdd(c0, IF time_signature \in {3, 4}
                       THEN Rat(25, 100) ELSE Rat(65, 100))
        c2 == IF mode = 0 THEN RAdd(c1, Rat(15, 100)) ELSE c1
        c3 == IF key = -1 THEN RAdd(c2, Rat(1, 10)) ELSE c2
    IN  c3

SizeRaw(acousticness, instrumentalness, valence) ==
    RAdd(RAdd(RMul(Rat(55, 100), RSub(One, acousticness)),
              RMul(Rat(25, 100), RSub(One, instrumentalness))),
         RMul(Rat(20, 100), valence))

EnergyLabels == <<"low energy", "medium energy", "high energy">>
ValenceLabels == <<"negative valence", "neutral valence", "positive valence">>
IntensityLabels == <<"low intensity", "medium intensity", "high intensity">>
ComplexityLabels == <<"low complexity", "medium complexity", "high complexity">>
SizeLabels == <<"small size", "medium size", "large size">>

\* The thresholds the complexity call site passes.
T1Complexity == Rat(40, 100)
T2Complexity == Rat(70, 100)

Scores(f) ==
    LET energy_score == Clamp01(EnergyRaw(f.energy, f.tempo_n, f.dance))
        valence_score == Clamp01(ValenceRaw(f.valence, f.tempo_n))
        intensity_score ==
            Clamp01(IntensityRaw(f.energy, f.loudness_n, f.tempo_n))
        complexity_raw == ComplexityRaw(f.time_signature, f.mode, f.key)
        complexity_score == Clamp01(complexity_raw)
        size_score ==
            Clamp01(SizeRaw(f.acousticness, f.instrumentalness, f.valence))
    IN  f @@
        [energy_score     |-> energy_score,
         energy_label     |->
             Bucket3(energy_score, EnergyLabels, T1Default, T2Default),
         valence_score    |-> valence_score,
         valence_label    |->
             Bucket3(valence_score, ValenceLabels, T1Default, T2Default),
         intensity_score  |-> intensity_score,
         intensity_label  |->
             Bucket3(intensity_score, IntensityLabels, T1Default, T2Default),
         complexity_raw   |-> complexity_raw,
         complexity_score |-> complexity_score,
         complexity_label |->
             Bucket3(complexity_score, ComplexityLabels,
                     T1Complexity, T2Complexity),
         size_score       |-> size_score,
         size_label       |->
             Bucket3(size_score, SizeLabels, T1Default, T2Default)]

\* The Fingerprint dataclass, built from the five labels.
Fingerprint(f) ==
    [energy     |-> f.energy_label,
     valence    |-> f.valence_label,
     intensity  |-> f.intensity_label,
     complexity |-> f.complexity_label,
     size       |-> f.size_label]

\* compute_fingerprint as one call on a record whose values are numbers.
ComputeFingerprint(d) == Fingerprint(Scores(Normalizations(ReadInputs(d))))

(***************************************************************************)
(* The descriptor records compute_fingerprint is called on.  Every field   *)
(* is absent or holds one of a few values: the value of the documented     *)
(* scenarios, and values outside the declared range or code set.  tempo    *)
(* may also be present with the value None.                                *)
(***************************************************************************)
Absent == <<0, -1>>

Choices ==
    [tempo            : {Absent, None, Rat(120, 1), Rat(-40, 1)},
     danceability     : {Absent, Rat(1, 2)},
     energy           : {Absent, Rat(1, 2), Rat(3, 1)},
     valence          : {Absent, Rat(1, 2)},
     loudness         : {Absent, Rat(-15, 1), Rat(5, 1)},
     time_signature   : {Absent, Rat(3, 1), Rat(4, 1), Rat(5, 1)},
     key              : {Absent, Rat(-1, 1), Rat(0, 1), Rat(12, 1)},
     mode             : {Absent, Rat(0, 1), Rat(1, 1), Rat(2, 1)},
     acousticness     : {Absent, Rat(1, 2), Rat(3, 1)},
     instrumentalness : {Absent, Rat(1, 2)}]

\* The dictionary holding the fields a choice makes present.
MkDict(c) == [k \in {j \in Fields : c[j] # Absent} |-> c[k]]

ScenarioA ==
    [tempo            |-> Rat(120, 1),
     danceability     |-> Rat(1, 2),
     energy           |-> Rat(1, 2),
     valence          |-> Rat(1, 2),
     loudness         |-> Rat(-15, 1),
     time_signature   |-> Rat(4, 1),
     key              |-> Rat(0, 1),
     mode             |-> Rat(1, 1),
     acousticness     |-> Rat(1, 2),
     instrumentalness |-> Rat(1, 2)]

EmptyRecord == MkDict([k \in Fields |-> Absent])

\* The records of the tracks several workers compute at once.
ParRecords == {ScenarioA, EmptyRecord}

\* The arguments of the direct calls of clamp, normalize_range, bucket_3.
Grid == {Rat(n, d) : n \in -MaxNum .. MaxNum, d \in 1 .. MaxDen}

Thresholds == {T1Default, T2Default, T1Complexity, T2Complexity}

NoCall == [fn |-> "none", args |-> <<>>, ret |-> <<>>, returned |-> FALSE]

\* A direct call of a helper, before it runs.
Pending(fn, args) ==
    [fn |-> fn, args |-> args, ret |-> <<>>, returned |-> FALSE]

PendingCalls ==
    {Pending("clamp", <<x, low, high>>) : x \in Grid, low \in Grid, high \in Grid}
    \cup
    {Pending("normalize_range", <<x, low, high>>) :
        x \in Grid, low \in Grid, high \in Grid}
    \cup
    {Pending("bucket_3", <<x, labels, t1, t2>>) :
        x \in Grid \cup Thresholds,
        labels \in {EnergyLabels, ComplexityLabels},
        t1 \in Grid \cup Thresholds,
        t2 \in Grid \cup Thresholds}

(***************************************************************************)
(* State.  tracks[t] is the descriptor record of track t; worker w makes   *)
(* one call of compute_fingerprint, on track cur[w], is at pc[w] in it and *)
(* has the locals frame[w]; results[t] holds every Fingerprint returned    *)
(* for t.                                                                  *)
(* util is the last direct call of a helper.                               *)
(***************************************************************************)
InitWith(workers, recs) ==
    /\ tracks \in recs
    /\ pc = [w \in workers |-> "idle"]
    /\ cur = [w \in workers |-> 0]
    /\ frame = [w \in workers |-> <<>>]
    /\ results = [t \in DOMAIN tracks |-> {}]
    /\ util = NoCall

\* One caller, one track, any record.
Init == InitWith({1}, {<<MkDict(c)>> : c \in Choices})

\* Several workers over several tracks.
InitPar == InitWith(1 .. NWorkers, [1 .. NTracks -> ParRecords])

\* One direct call of clamp, normalize_range or bucket_3.
InitUtil ==
    /\ tracks = <<>>
    /\ pc = <<>>
    /\ cur = <<>>
    /\ frame = <<>>
    /\ results = <<>>
    /\ util \in PendingCalls

\* Entry of compute_fingerprint and the ten reads of the inputs.
Call(w, t) ==
    /\ pc[w] = "idle"
    /\ cur' = [cur EXCEPT ![w] = t]
    /\ tracks' = [tracks EXCEPT ![t] = AfterGet(@, Fields)]
    /\ IF Raises(tracks[t])
       THEN /\ pc' = [pc EXCEPT ![w] = "raised"]
            /\ frame' = frame
       ELSE /\ pc' = [pc EXCEPT ![w] = "read"]
            /\ frame' = [frame EXCEPT ![w] = ReadInputs(tracks[t])]
    /\ UNCHANGED <<results, util>>

Normalize(w) ==
    /\ pc[w] = "read"
    /\ frame' = [frame EXCEPT ![w] = Normalizations(@)]
    /\ pc' = [pc EXCEPT ![w] = "normalized"]
    /\ UNCHANGED <<tracks, cur, results, util>>

Score(w) ==
    /\ pc[w] = "normalized"
    /\ frame' = [frame EXCEPT ![w] = Scores(@)]
    /\ pc' = [pc EXCEPT ![w] = "scored"]
    /\ UNCHANGED <<tracks, cur, results, util>>

Return(w) ==
    /\ pc[w] = "scored"
    /\ results' = [results EXCEPT ![cur[w]] = @ \cup {Fingerprint(frame[w])}]
    /\ frame' = [frame EXCEPT ![w] = <<>>]
    /\ pc' = [pc EXCEPT ![w] = "returned"]
    /\ UNCHANGED <<tracks, cur, util>>

Next ==
    \/ \E w \in DOMAIN pc : \E t \in DOMAIN tracks : Call(w, t)
    \/ \E w \in DOMAIN pc : Normalize(w)
    \/ \E w \in DOMAIN pc : Score(w)
    \/ \E w \in DOMAIN pc : Return(w)

Spec == Init /\ [][Next]_vars

SpecPar == InitPar /\ [][Next]_vars

Returned(v) == [util EXCEPT !.ret = v, !.returned = TRUE]

CallClamp ==
    /\ util.fn = "clamp"
    /\ ~util.returned
    /\ util' = Returned(Clamp(util.args[1], util.args[2], util.args[3]))
    /\ UNCHANGED <<tracks, pc, cur, frame, results>>

CallNormalizeRange ==
    /\ util.fn = "normalize_range"
    /\ ~util.returned
    /\ util' = Returned(NormalizeRange(util.args[1], util.args[2], util.args[3]))
    /\ UNCHANGED <<tracks, pc, cur, frame, results>>

CallBucket3 ==
    /\ util.fn = "bucket_3"
    /\ ~util.returned
    /\ util' = Returned(Bucket3(util.args[1], util.args[2],
                                util.args[3], util.args[4]))
    /\ UNCHANGED <<tracks, pc, cur, frame, results>>

NextUtil == CallClamp \/ CallNormalizeRange \/ CallBucket3

SpecUtil == InitUtil /\ [][NextUtil]_vars

(***************************************************************************)
(* Properties.                                                             *)
(***************************************************************************)
Scored(w) == pc[w] = "scored"

AllNumbers(d) == \A k \in DOMAIN d : IsNumber(d[k])

In01(x) == RLeq(Zero, x) /\ RLeq(x, One)

\* The fallback of each field, as a value of the record.
FallbackOf ==
    [tempo            |-> Rat(0, 1),
     danceability     |-> Rat(0, 1),
     energy           |-> Rat(0, 1),
     valence          |-> Rat(0, 1),
     loudness         |-> Rat(-60, 1),
     time_signature   |-> Rat(4, 1),
     key              |-> Rat(0, 1),
     mode             |-> Rat(1, 1),
     acousticness     |-> Rat(0, 1),
     instrumentalness |-> Rat(0, 1)]

\* The record with every absent field filled in by its fallback.
FilledIn(d) == [k \in Fields |-> IF k \in DOMAIN d THEN d[k] ELSE FallbackOf[k]]

ScenarioBFingerprint ==
    [energy     |-> "low energy",
     valence    |-> "negative valence",
     intensity  |-> "low intensity",
     complexity |-> "low complexity",
     size       |-> "large size"]

\* C1: on a record whose present fields are numbers, whatever subset of the
\* ten fields is absent, compute_fingerprint does not raise, and the
\* Fingerprint it computes and returns is the one of the record with the
\* absent fields filled in by their fallbacks; the empty record yields
\* (low energy, negative valence, low intensity, low complexity, large size).
C1_TotalOnMissingFields ==
    /\ \A w \in DOMAIN pc :
           (cur[w] # 0 /\ AllNumbers(tracks[cur[w]])) =>
               /\ pc[w] # "raised"
               /\ Scored(w) =>
                      Fingerprint(frame[w])
                          = ComputeFingerprint(FilledIn(tracks[cur[w]]))
    /\ \A t \in DOMAIN tracks :
           AllNumbers(tracks[t]) =>
               /\ results[t] \subseteq {ComputeFingerprint(FilledIn(tracks[t]))}
               /\ tracks[t] = EmptyRecord =>
                      results[t] \subseteq {ScenarioBFingerprint}

\* A Fingerprint has been returned for a record that holds only tempo,
\* energy and mode.
C1_Witness ==
    /\ DOMAIN tracks[1] = {"tempo", "energy", "mode"}
    /\ AllNumbers(tracks[1])
    /\ results[1] # {}

Range(seq) == {seq[i] : i \in DOMAIN seq}

\* C2: whatever the record, each of the five scores handed to bucket_3 lies
\* in [0, 1], and each label, computed or returned, is one of the three
\* labels of its own dimension.
C2_ScoresInUnitInterval ==
    /\ \A w \in DOMAIN pc :
           Scored(w) =>
               /\ In01(frame[w].energy_score)
               /\ In01(frame[w].valence_score)
               /\ In01(frame[w].intensity_score)
               /\ In01(frame[w].complexity_score)
               /\ In01(frame[w].size_score)
               /\ frame[w].energy_label \in Range(EnergyLabels)
               /\ frame[w].valence_label \in Range(ValenceLabels)
               /\ frame[w].intensity_label \in Range(IntensityLabels)
               /\ frame[w].complexity_label \in Range(ComplexityLabels)
               /\ frame[w].size_label \in Range(SizeLabels)
    /\ \A t \in DOMAIN tracks :
           \A fp \in results[t] :
               /\ fp.energy \in Range(EnergyLabels)
               /\ fp.valence \in Range(ValenceLabels)
               /\ fp.intensity \in Range(IntensityLabels)
               /\ fp.complexity \in Range(ComplexityLabels)
               /\ fp.size \in Range(SizeLabels)

\* The scores have been computed for a record with a negative tempo,
\* energy > 1, acousticness > 1 and loudness > 0, whose weighted energy sum
\* exceeds 1 and whose weighted size sum is negative.
C2_Witness ==
    /\ Scored(1)
    /\ RLess(frame[1].tempo, Zero)
    /\ RLess(One, frame[1].energy)
    /\ RLess(One, frame[1].acousticness)
    /\ RLess(Zero, frame[1].loudness)
    /\ RLess(One, EnergyRaw(frame[1].energy, frame[1].tempo_n, frame[1].dance))
    /\ RLess(SizeRaw(frame[1].acousticness, frame[1].instrumentalness,
                     frame[1].valence), Zero)

ScenarioAFingerprint ==
    [energy     |-> "medium energy",
     valence    |-> "neutral valence",
     intensity  |-> "medium intensity",
     complexity |-> "low complexity",
     size       |-> "medium size"]

\* C3: for the Scenario A record, compute_fingerprint computes and returns
\* exactly (medium energy, neutral valence, medium intensity, low
\* complexity, medium size).
C3_ScenarioALabels ==
    \A t \in DOMAIN tracks :
        tracks[t] = ScenarioA =>
            /\ results[t] \subseteq {ScenarioAFingerprint}
            /\ \A w \in DOMAIN pc :
                   (cur[w] = t /\ Scored(w)) =>
                       Fingerprint(frame[w]) = ScenarioAFingerprint

\* The Fingerprint of the Scenario A record has been returned.
C3_Witness == tracks[1] = ScenarioA /\ results[1] # {}

\* x to four decimal places, in units of 1/10000 (x >= 0, half rounds up).
Round4(x) == (2 * 10000 * x[1] + x[2]) \div (2 * x[2])

\* The weighted sums as the claim states them, over the locals of a frame.
C4_WeightsAsStated(f) ==
    /\ f.energy_score
           = RAdd(RAdd(RMul(Rat(45, 100), f.energy),
                       RMul(Rat(35, 100), f.tempo_n)),
                  RMul(Rat(20, 100), f.dance))
    /\ f.valence_score
           = RAdd(RMul(Rat(85, 100), f.valence), RMul(Rat(15, 100), f.tempo_n))
    /\ f.intensity_score
           = RAdd(RAdd(RMul(Rat(45, 100), f.energy),
                       RMul(Rat(35, 100), f.loudness_n)),
                  RMul(Rat(20, 100), f.tempo_n))
    /\ f.size_score
           = RAdd(RAdd(RMul(Rat(55, 100), RSub(One, f.acousticness)),
                       RMul(Rat(25, 100), RSub(One, f.instrumentalness))),
                  RMul(Rat(20, 100), f.valence))

\* C4 as stated: the Scenario A scores, to four decimal places, are
\* tempo_n 0.4667, loudness_n 0.5, energy 0.5383, valence 0.495, intensity
\* 0.5183, complexity_raw 0.25, size 0.5, by the stated weights.
C4_AsStated ==
    \A w \in DOMAIN pc :
        (Scored(w) /\ tracks[cur[w]] = ScenarioA) =>
            /\ Round4(frame[w].tempo_n) = 4667
            /\ Round4(frame[w].loudness_n) = 5000
            /\ Round4(frame[w].energy_score) = 5383
            /\ Round4(frame[w].valence_score) = 4950
            /\ Round4(frame[w].intensity_score) = 5183
            /\ Round4(frame[w].complexity_raw) = 2500
            /\ Round4(frame[w].size_score) = 5000
            /\ C4_WeightsAsStated(frame[w])

\* C4, amended: the Scenario A scores, to four decimal places, are tempo_n
\* 0.4667, loudness_n 0.5, energy 0.4883, valence 0.495, intensity 0.4933,
\* complexity_raw 0.25, size 0.5, by the stated weights.
C4_ScenarioAScores ==
    \A w \in DOMAIN pc :
        (Scored(w) /\ tracks[cur[w]] = ScenarioA) =>
            /\ Round4(frame[w].tempo_n) = 4667
            /\ Round4(frame[w].loudness_n) = 5000
            /\ Round4(frame[w].energy_score) = 4883
            /\ Round4(frame[w].valence_score) = 4950
            /\ Round4(frame[w].intensity_score) = 4933
            /\ Round4(frame[w].complexity_raw) = 2500
            /\ Round4(frame[w].size_score) = 5000
            /\ C4_WeightsAsStated(frame[w])

\* The scores of the Scenario A record have been computed.
C4_Witness == Scored(1) /\ tracks[cur[1]] = ScenarioA

\* The complexity score as the claim states it.
C9_ScoreAsStated(time_signature, mode, key) ==
    RAdd(RAdd(IF time_signature \in {3, 4} THEN Rat(25, 100) ELSE Rat(65, 100),
              IF mode = 0 THEN Rat(15, 100) ELSE Zero),
         IF key = -1 THEN Rat(10, 100) ELSE Zero)

\* C9: the complexity score is 0.25 for time_signature 3 or 4 and 0.65
\* otherwise, plus 0.15 if mode = 0, plus 0.10 if key = -1; it never exceeds
\* 0.90, so the clamp leaves it as it is; and time_signature = 5, mode = 0,
\* key = -1 gives 0.90 and the label high complexity.
C9_ComplexityScore ==
    \A w \in DOMAIN pc :
        Scored(w) =>
            LET f == frame[w]
            IN  /\ f.complexity_raw
                       = C9_ScoreAsStated(f.time_signature, f.mode, f.key)
                /\ RLeq(f.complexity_raw, Rat(90, 100))
                /\ f.complexity_score = f.complexity_raw
                /\ (f.time_signature = 5 /\ f.mode = 0 /\ f.key = -1) =>
                       /\ f.complexity_score = Rat(90, 100)
                       /\ f.complexity_label = "high complexity"

\* The scores of a record with time_signature = 5, mode = 0, key = -1 have
\* been computed.
C9_Witness ==
    /\ Scored(1)
    /\ frame[1].time_signature = 5
    /\ frame[1].mode = 0
    /\ frame[1].key = -1

\* C10: the complexity label is low iff time_signature is 3 or 4 and
\* mode # 0; high iff time_signature is neither 3 nor 4 and (mode = 0 or
\* key = -1); medium in every other case, where the score is 0.40 or 0.50
\* (minor mode in 3/4 or 4/4) or 0.65 (major, keyed, uncommon meter).  The
\* label is thus a function of time_signature, mode and key alone.
C10_ComplexityLabelDecided ==
    \A w \in DOMAIN pc :
        Scored(w) =>
            LET f == frame[w]
                common == f.time_signature \in {3, 4}
                isLow == common /\ f.mode # 0
                isHigh == ~common /\ (f.mode = 0 \/ f.key = -1)
            IN  /\ f.complexity_label = "low complexity" <=> isLow
                /\ f.complexity_label = "high complexity" <=> isHigh
                /\ f.complexity_label = "medium complexity"
                       <=> (~isLow /\ ~isHigh)
                /\ (common /\ f.mode = 0) =>
                       f.complexity_score \in {Rat(40, 100), Rat(50, 100)}
                /\ (~common /\ f.mode # 0 /\ f.key # -1) =>
                       f.complexity_score = Rat(65, 100)

\* The scores of a minor-mode, keyed record in 4/4 have been computed: the
\* complexity score is exactly 0.40 and the label is medium complexity.
C10_Witness ==
    /\ Scored(1)
    /\ frame[1].time_signature = 4
    /\ frame[1].mode = 0
    /\ frame[1].key = 12
    /\ frame[1].complexity_score = T1Complexity
    /\ frame[1].complexity_label = "medium complexity"

\* C8: for tracks computed by several workers in any interleaving, every
\* Fingerprint returned for a track is the one compute_fingerprint gives on
\* that track's record alone (so two computations of a record agree), and
\* no step changes a record: every step leaves tracks as it was and leaves
\* in results only Fingerprints of the track's own record.
C8_DeterministicAcrossTracks ==
    [][/\ tracks' = tracks
       /\ \A t \in DOMAIN tracks :
              results'[t] \subseteq {ComputeFingerprint(tracks[t])}]_vars

\* Two workers are inside compute_fingerprint at once, at different steps,
\* on tracks with different records.
C8_Witness ==
    \E v, w \in DOMAIN pc :
        /\ v # w
        /\ pc[v] = "normalized"
        /\ pc[w] = "scored"
        /\ tracks[cur[v]] # tracks[cur[w]]

\* The label's place among the labels: 1, 2 or 3.
LabelIndex(label, labels) == CHOOSE i \in 1 .. 3 : labels[i] = label

\* C5: for thresholds t1 <= t2, bucket_3(x) is labels[0] iff x < t1,
\* labels[1] iff t1 <= x < t2 and labels[2] iff x >= t2, so 0.33 and 0.66
\* fall into the middle and the top bucket with the default thresholds, and
\* 0.40 and 0.70 with the complexity thresholds; and bucket_3 is monotone:
\* a greater or equal score never gets a lower label.
C5_Bucket3HalfOpenMonotone ==
    (util.fn = "bucket_3" /\ util.returned) =>
        LET x == util.args[1]
            labels == util.args[2]
            t1 == util.args[3]
            t2 == util.args[4]
        IN  RLeq(t1, t2) =>
                /\ util.ret = labels[1] <=> RLess(x, t1)
                /\ util.ret = labels[2] <=> (RLeq(t1, x) /\ RLess(x, t2))
                /\ util.ret = labels[3] <=> RLeq(t2, x)
                /\ (t1 = T1Default /\ t2 = T2Default /\ x = Rat(33, 100)) =>
                       util.ret = labels[2]
                /\ (t1 = T1Default /\ t2 = T2Default /\ x = Rat(66, 100)) =>
                       util.ret = labels[3]
                /\ (t1 = T1Complexity /\ t2 = T2Complexity
                        /\ x = Rat(40, 100)) =>
                       util.ret = labels[2]
                /\ (t1 = T1Complexity /\ t2 = T2Complexity
                        /\ x = Rat(70, 100)) =>
                       util.ret = labels[3]
                /\ \A y \in Grid \cup Thresholds :
                       RLeq(x, y) =>
                           LabelIndex(util.ret, labels)
                               <= LabelIndex(Bucket3(y, labels, t1, t2), labels)

\* bucket_3 has returned the middle label for a score equal to t1 < t2.
C5_Witness ==
    /\ util.fn = "bucket_3"
    /\ util.returned
    /\ util.args[1] = util.args[3]
    /\ RLess(util.args[3], util.args[4])
    /\ util.ret = util.args[2][2]

\* C6: for low < high, normalize_range(x, low, high) lies in [0, 1], is 0 at
\* x = low and 1 at x = high; for low = high it is 0.
C6_NormalizeRange ==
    (util.fn = "normalize_range" /\ util.returned) =>
        LET x == util.args[1]
            low == util.args[2]
            high == util.args[3]
        IN  /\ RLess(low, high) =>
                   /\ In01(util.ret)
                   /\ x = low => util.ret = Zero
                   /\ x = high => util.ret = One
            /\ low = high => util.ret = Zero

\* normalize_range has returned 1 for an x above high, with low < high.
C6_Witness ==
    /\ util.fn = "normalize_range"
    /\ util.returned
    /\ RLess(util.args[2], util.args[3])
    /\ RLess(util.args[3], util.args[1])
    /\ util.ret = One

\* C7: for low <= high, clamp(x, low, high) is low if x < low, high if
\* x > high and x otherwise; it lies in [low, high], is x when x lies in
\* [low, high], and clamping it again changes nothing.
C7_Clamp ==
    (util.fn = "clamp" /\ util.returned) =>
        LET x == util.args[1]
            low == util.args[2]
            high == util.args[3]
        IN  RLeq(low, high) =>
                /\ util.ret = IF RLess(x, low) THEN low
                              ELSE IF RLess(high, x) THEN high
                              ELSE x
                /\ RLeq(low, util.ret) /\ RLeq(util.ret, high)
                /\ (RLeq(low, x) /\ RLeq(x, high)) => util.ret = x
                /\ Clamp(util.ret, low, high) = util.ret

\* clamp has returned low for an x below low < high.
C7_Witness ==
    /\ util.fn = "clamp"
    /\ util.returned
    /\ RLess(util.args[1], util.args[2])
    /\ RLess(util.args[2], util.args[3])
    /\ util.ret = util.args[2]

====
